---- MODULE Spec2Model ----
(***************************************************************************)
(* Model of the OpenClaw phone call relay (infra/freepbx-ami-relay.py).    *)
(*                                                                         *)
(* The relay is a single-threaded HTTPServer: one request is handled at a  *)
(* time.  A request that reaches originate_call is modelled step by step   *)
(* (one action per external program or filesystem call), so that the       *)
(* telephony engine's scan of the spool directory and the passing of time  *)
(* interleave with it at every point.  The two directories are modelled    *)
(* as functions from file names to files.  Strings are sequences of        *)
(* one-character strings and of fixed pieces of text.                      *)
(***************************************************************************)
EXTENDS Integers, Sequences, FiniteSets, TLC

(***************************************************************************)
(* Bounds of the model.                                                    *)
(***************************************************************************)
MaxCalls    == 2      \* calls of originate_call by one process
MaxFaults   == 1      \* failing steps (raised or suppressed) of one process
TicksPerMs  == 2      \* clock readings distinguished within one millisecond

(***************************************************************************)
(* Configuration (module level constants of the relay).                    *)
(***************************************************************************)
MAX_SOUND_AGE_SECS == 3600
SPOOL_DIR  == "/var/spool/asterisk/outgoing"
TRUNK      == "YOUR_TRUNK_NAME"
CALLER_ID  == "Akira <+E164_CALLER_NUMBER>"

\* The values FREEPBX_RELAY_TOKEN may have in the environment of the process.
Tokens == {"", "s3cret"}

(***************************************************************************)
(* Strings.                                                                *)
(***************************************************************************)
Whitespace == {" ", "\n"}

\* str.lstrip / str.rstrip / str.strip
RECURSIVE lstrip(_)
lstrip(s) == IF s # <<>> /\ Head(s) \in Whitespace THEN lstrip(Tail(s)) ELSE s

RECURSIVE rstrip(_)
rstrip(s) ==
    IF s # <<>> /\ s[Len(s)] \in Whitespace THEN rstrip(SubSeq(s, 1, Len(s) - 1)) ELSE s

strip(s) == rstrip(lstrip(s))

\* str(n) of a non-negative integer: its decimal digits.
Digit(d) == CASE d = 0 -> "0" [] d = 1 -> "1" [] d = 2 -> "2" [] d = 3 -> "3" [] d = 4 -> "4"
              [] d = 5 -> "5" [] d = 6 -> "6" [] d = 7 -> "7" [] d = 8 -> "8" [] d = 9 -> "9"

RECURSIVE str_int(_)
str_int(n) == IF n < 10 THEN <<Digit(n)>> ELSE Append(str_int(n \div 10), Digit(n % 10))

\* str.startswith
startswith(s, prefix) ==
    Len(s) >= Len(prefix) /\ SubSeq(s, 1, Len(prefix)) = prefix

(***************************************************************************)
(* Requests.  A member of the JSON object of a body is a string, null or   *)
(* missing.                                                                *)
(***************************************************************************)
Missing == [t |-> "missing", s |-> <<>>]       \* the key is not in the object
JNull   == [t |-> "null", s |-> <<>>]          \* JSON null, Python None
JStr(s) == [t |-> "str", s |-> s]

\* str(x): a str is itself, None is "None"
py_str(v) == IF v.t = "null" THEN <<"N", "o", "n", "e">> ELSE v.s

\* dict.get(key, default)
dict_get(v, default) == IF v.t = "missing" THEN JStr(default) ELSE v

\* What the bytes of a body are: not JSON at all, a JSON value that is
\* not an object, or a JSON object with its 'to' and 'message' members.
NoObject(kind) == [kind |-> kind, to |-> Missing, message |-> Missing]
Object(to, message) == [kind |-> "object", to |-> to, message |-> message]

PlainCall == Object(JStr(<<"1">>), Missing)

\* The bodies tried.  'to' is absent, null, empty, blank, a number, a
\* number with blanks around it, or a string with a line break inside.
Bodies ==
    {NoObject("garbage"), NoObject("array"), PlainCall}
    \cup {Object(t, Missing) : t \in {Missing, JNull, JStr(<<>>), JStr(<<" ">>),
                                      JStr(<<" ", "1", "\n">>)}}
    \cup {Object(JStr(<<"1", "\n", "2">>), JStr(<<" ", "h", "i">>))}

ContentLengths == {"absent", "exact", "invalid"}
TokenHeaders   == {"absent", "s3cret", "wrong"}

Request(method, path, token, clen, body) ==
    [method |-> method, path |-> path, token |-> token, clen |-> clen, body |-> body]

\* The requests tried.  Only do_POST reads headers and body, and only on
\* /call: every token is tried there with every body, and with a well formed
\* call whose Content-Length is absent or not a number (the body is not read
\* then, so one body stands for all).
Requests ==
    {Request(m, p, "absent", "absent", NoObject("garbage")) :
        m \in {"GET", "PUT"}, p \in {"/health", "/call", "/other"}}
    \cup {Request("POST", p, t, "exact", b) :
        p \in {"/health", "/other"}, t \in {"s3cret", "wrong"}, b \in {NoObject("garbage"), PlainCall}}
    \cup {Request("POST", "/call", t, "exact", b) : t \in TokenHeaders, b \in Bodies}
    \cup {Request("POST", "/call", t, c, PlainCall) :
        t \in TokenHeaders, c \in ContentLengths \ {"exact"}}

(***************************************************************************)
(* Files and directories.  A directory is a function from the names of    *)
(* the files in it to the files.                                          *)
(***************************************************************************)
EmptyDir == [n \in {} |-> <<>>]

\* The directory with file n created or replaced by f.
Put(dir, n, f) == [x \in DOMAIN dir \cup {n} |-> IF x = n THEN f ELSE dir[x]]

\* The directory with file n unlinked (os.remove, and the source of os.rename).
Unlink(dir, n) == [x \in DOMAIN dir \ {n} |-> dir[x]]

\* os.path.join
join(dir, name) == <<dir, "/">> \o name

\* shutil.chown(path, "asterisk", "asterisk"), when it succeeds: the names
\* and the contents of the files stay as they are.
chown(dir, n) == dir

(***************************************************************************)
(* Names derived from the identifier of a call.                            *)
(***************************************************************************)
ASSET_PREFIX == <<"akira-alert-">>

sound_name_of(uid) == ASSET_PREFIX \o uid
raw_path(sound)    == sound \o <<"-raw.wav">>
final_path(sound)  == sound \o <<".wav">>
call_file(uid)     == <<"akira-">> \o uid \o <<".call">>

\* Mutant: the text is written in place, under the final name.
tmp_file_in_place(uid) == call_file(uid)

tmp_file(uid)      == call_file(uid) \o <<".tmp">>

IsFinalName(n) == n[Len(n)] = ".call"

\* The text of the call file (lines 79-87): the f-string, piece by piece.
content(to, sound) ==
    <<"Channel: PJSIP/">> \o to \o <<"@", TRUNK, "\n">>
    \o <<"Application: Playback", "\n">>
    \o <<"Data: custom/">> \o sound \o <<"\n">>
    \o <<"MaxRetries: 2", "\n">>
    \o <<"RetryTime: 30", "\n">>
    \o <<"WaitTime: 45", "\n">>
    \o <<"CallerID: ", CALLER_ID, "\n">>

DEFAULT_MESSAGE == <<"Alert from Akira">>

(***************************************************************************)
(* Responses.  A body is a function from the keys of the JSON object (or   *)
(* of the error page) to their values.                                     *)
(***************************************************************************)
NoBody == [k \in {} |-> <<>>]

\* BaseHTTPRequestHandler.send_error: an HTML error page, not JSON.
send_error(code, message) ==
    [code |-> code, ctype |-> "text/html", body |-> [message |-> <<message>>]]

\* Handler._json
json_response(code, data) ==
    [code |-> code, ctype |-> "application/json", body |-> data]

\* An exception that leaves do_POST: socketserver logs it and closes the
\* connection; the client gets no response.
Uncaught(exc) ==
    [code |-> 0, ctype |-> "none", body |-> [exception |-> <<exc>>]]

NoResponse == [code |-> 0, ctype |-> "none", body |-> NoBody]

\* The except branch of do_POST (lines 154-155).
error_result(e) == json_response(500, [status |-> <<"error">>, reason |-> <<e>>])

\* The dict originate_call returns (line 101).
ok_result(to, sound, uid) ==
    [status |-> <<"ok">>, to |-> to, sound |-> sound,
     call_file |-> join(SPOOL_DIR, call_file(uid))]

(***************************************************************************)
(* State.                                                                  *)
(***************************************************************************)
VARIABLES
    RELAY_TOKEN,  \* the token read from the environment at import
    clock,        \* time.time(), in units of 1/TicksPerMs millisecond
    sounds,       \* SOUNDS_DIR: name -> [st, mtime, isfile]
    spool,        \* SPOOL_DIR:  name -> [text]
    pc,           \* where the handler of the current request stands
    request,      \* the request being handled
    cur,          \* the call being originated: [to, message, uid, sound]
    trace,        \* the steps of originate_call taken for the current request
    resp,         \* the response to the last request
    uids,         \* the uid of every originate_call so far, in order
    faults        \* how many steps have failed so far

vars == <<RELAY_TOKEN, clock, sounds, spool, pc, request, cur, trace, resp, uids, faults>>

NoCall == [to |-> <<>>, message |-> <<>>, uid |-> <<>>, sound |-> <<>>]

NoRequest == Request("", "", "absent", "absent", NoObject("garbage"))

\* SOUNDS_DIR is a directory of the telephony engine, which the relay does
\* not own (makedirs(exist_ok=True), line 47): what is in it when the relay
\* starts.  A sound of the engine, and a directory whose name has the prefix
\* of the assets.
Preexisting ==
    Put(Put(EmptyDir, <<"greeting", ".wav">>, [st |-> "complete", mtime |-> 0, isfile |-> TRUE]),
        ASSET_PREFIX \o <<"archive">>, [st |-> "complete", mtime |-> 0, isfile |-> FALSE])

Init ==
    /\ RELAY_TOKEN \in Tokens
    /\ clock = 0
    /\ sounds = Preexisting
    /\ spool = EmptyDir
    /\ pc = "idle"
    /\ request = NoRequest
    /\ cur = NoCall
    /\ trace = <<>>
    /\ resp = NoResponse
    /\ uids = <<>>
    /\ faults = 0

(***************************************************************************)
(* Time.                                                                   *)
(***************************************************************************)
\* MAX_SOUND_AGE_SECS in units of the clock.
MaxAge == MAX_SOUND_AGE_SECS * 1000 * TicksPerMs

\* int(time.time() * 1000)
time_ms == clock \div TicksPerMs

\* The places where the next step of the handler reads the clock or stamps
\* a file with it.
ReadsClock == {"idle", "flite", "sox", "cleanup"}

\* The readings of the clock tried: the start, the next reading within
\* the same millisecond, and the two readings around the moment a file
\* written at the second reading passes the retention window.
Instants == {0, 1, MaxAge + 1, MaxAge + 2}

\* Time passes.  The advance is taken where the clock is read next: an
\* advance anywhere else cannot be told from one taken there.
Tick ==
    /\ pc \in ReadsClock
    /\ \E t \in Instants : t > clock /\ clock' = t
    /\ UNCHANGED <<RELAY_TOKEN, sounds, spool, pc, request, cur, trace, resp, uids, faults>>

(***************************************************************************)
(* The telephony engine: it takes a file with a final name out of the      *)
(* spool directory and executes it.                                        *)
(***************************************************************************)
AsteriskPickup ==
    /\ \E n \in DOMAIN spool :
          /\ IsFinalName(n)
          /\ spool' = Unlink(spool, n)
    /\ UNCHANGED <<RELAY_TOKEN, clock, sounds, pc, request, cur, trace, resp, uids, faults>>

(***************************************************************************)
(* Request handling up to originate_call.                                  *)
(***************************************************************************)
\* json.loads(self.rfile.read(length)): the parsed body, or "error".
\* Without a Content-Length header nothing is read, and b"" is not JSON.
json_loads(req) ==
    IF req.clen = "absent" \/ req.body.kind = "garbage" THEN "error" ELSE req.body.kind

\* Mutant: 'to' is taken as it is, without strip().
to_of_unstripped(req) == py_str(dict_get(req.body.to, <<>>))

\* to and message as lines 144-145 compute them
to_of(req)      == strip(py_str(dict_get(req.body.to, <<>>)))
message_of(req) == strip(py_str(dict_get(req.body.message, DEFAULT_MESSAGE)))

\* The checks of do_POST, in the order of the code.  The result is the
\* response that ends the request, or Accept when originate_call is called.
Accept == [code |-> 0, ctype |-> "none", body |-> [accept |-> <<>>]]

\* Mutant: the body is read and parsed before the token is compared.
post_checks_parse_first(token, req) ==
    IF req.path # "/call" THEN send_error(404, "Not Found")
    ELSE IF token = "" THEN send_error(500, "FREEPBX_RELAY_TOKEN not set")
    ELSE IF req.clen = "invalid" THEN Uncaught("ValueError")
    ELSE IF json_loads(req) = "error" THEN send_error(400, "Invalid JSON")
    ELSE IF req.token # token THEN send_error(403, "Forbidden")
    ELSE IF json_loads(req) # "object" THEN Uncaught("AttributeError")
    ELSE IF to_of(req) = <<>> THEN send_error(400, "Missing 'to'")
    ELSE Accept

\* Mutant: the token of the request is compared before the configured token
\* is tested for being set.
post_checks_match_first(token, req) ==
    IF req.path # "/call" THEN send_error(404, "Not Found")
    ELSE IF req.token # token THEN send_error(403, "Forbidden")
    ELSE IF token = "" THEN send_error(500, "FREEPBX_RELAY_TOKEN not set")
    ELSE IF req.clen = "invalid" THEN Uncaught("ValueError")
    ELSE IF json_loads(req) = "error" THEN send_error(400, "Invalid JSON")
    ELSE IF json_loads(req) # "object" THEN Uncaught("AttributeError")
    ELSE IF to_of(req) = <<>> THEN send_error(400, "Missing 'to'")
    ELSE Accept

post_checks(token, req) ==
    IF req.path # "/call" THEN send_error(404, "Not Found")
    ELSE IF token = "" THEN send_error(500, "FREEPBX_RELAY_TOKEN not set")
    ELSE IF req.token # token THEN send_error(403, "Forbidden")
    ELSE IF req.clen = "invalid" THEN Uncaught("ValueError")
    ELSE IF json_loads(req) = "error" THEN send_error(400, "Invalid JSON")
    ELSE IF json_loads(req) # "object" THEN Uncaught("AttributeError")
    ELSE IF to_of(req) = <<>> THEN send_error(400, "Missing 'to'")
    ELSE Accept

\* Handler.do_GET
get_checks(req) ==
    IF req.path = "/health" THEN json_response(200, [status |-> <<"ok">>])
    ELSE send_error(404, "Not Found")

\* BaseHTTPRequestHandler.handle_one_request: do_<METHOD>, or 501.
dispatch(token, req) ==
    CASE req.method = "GET"  -> get_checks(req)
      [] req.method = "POST" -> post_checks(token, req)
      [] OTHER -> send_error(501, "Unsupported method")

\* A request that ends before originate_call.
Reject(req) ==
    /\ pc = "idle"
    /\ dispatch(RELAY_TOKEN, req) # Accept
    /\ request' = req
    /\ resp' = dispatch(RELAY_TOKEN, req)
    /\ pc' = "done"
    /\ UNCHANGED <<RELAY_TOKEN, clock, sounds, spool, cur, trace, uids, faults>>

\* A request that passes every check: originate_call starts (line 70).
originate_call(req) ==
    /\ pc = "idle"
    /\ Len(uids) < MaxCalls
    /\ dispatch(RELAY_TOKEN, req) = Accept
    /\ request' = req
    /\ LET uid == str_int(time_ms)
       IN  /\ cur' = [to |-> to_of(req), message |-> message_of(req),
                      uid |-> uid, sound |-> sound_name_of(uid)]
           /\ uids' = Append(uids, uid)
    /\ pc' = "flite"
    /\ UNCHANGED <<RELAY_TOKEN, clock, sounds, spool, trace, resp, faults>>

(***************************************************************************)
(* originate_call, step by step.  Every step that can raise chooses        *)
(* whether it does; an exception that is not caught where it is raised     *)
(* reaches the except branch of do_POST, which answers 500.                *)
(***************************************************************************)
Event(op, ok, name) == [op |-> op, ok |-> ok, name |-> name]

\* The step op on the file name succeeded and the handler goes on at next.
Continue(op, name, next) ==
    /\ trace' = Append(trace, Event(op, TRUE, name))
    /\ pc' = next
    /\ UNCHANGED <<resp, faults>>

\* The step op raised e, and nothing on the way up to do_POST catches it.
Raise(op, name, e) ==
    /\ faults < MaxFaults
    /\ faults' = faults + 1
    /\ trace' = Append(trace, Event(op, FALSE, name))
    /\ pc' = "done"
    /\ resp' = error_result(e)

\* The step op raised, and the exception is suppressed where it was raised.
Suppress(op, name, next) ==
    /\ faults < MaxFaults
    /\ faults' = faults + 1
    /\ trace' = Append(trace, Event(op, FALSE, name))
    /\ pc' = next
    /\ UNCHANGED resp

NewSound(st) == [st |-> st, mtime |-> clock, isfile |-> TRUE]
NewCallFile(text) == [text |-> text]

\* A program that exits non-zero may have written nothing or a part of
\* its output file.
AfterFailedWrite(dir, n) == {dir, Put(dir, n, NewSound("partial"))}

\* Mutant: flite is run without check=True, its exit status is ignored.
tts_flite_unchecked ==
    /\ pc = "flite"
    /\ \/ /\ sounds' = Put(sounds, raw_path(cur.sound), NewSound("complete"))
          /\ Continue("flite", raw_path(cur.sound), "sox")
       \/ /\ sounds' \in AfterFailedWrite(sounds, raw_path(cur.sound))
          /\ Suppress("flite", raw_path(cur.sound), "sox")
    /\ UNCHANGED <<RELAY_TOKEN, clock, spool, request, cur, uids>>

\* generate_tts: makedirs and flite (lines 47-50)
tts_flite ==
    /\ pc = "flite"
    /\ \/ /\ sounds' = Put(sounds, raw_path(cur.sound), NewSound("complete"))
          /\ Continue("flite", raw_path(cur.sound), "sox")
       \/ /\ sounds' \in AfterFailedWrite(sounds, raw_path(cur.sound))
          /\ Raise("flite", raw_path(cur.sound), "CalledProcessError")
    /\ UNCHANGED <<RELAY_TOKEN, clock, spool, request, cur, uids>>

\* Mutant: sox is run without check=True, its exit status is ignored.
tts_sox_unchecked ==
    /\ pc = "sox"
    /\ \/ /\ sounds' = Put(sounds, final_path(cur.sound), NewSound("complete"))
          /\ Continue("sox", final_path(cur.sound), "remove_raw")
       \/ /\ sounds' \in AfterFailedWrite(sounds, final_path(cur.sound))
          /\ Suppress("sox", final_path(cur.sound), "remove_raw")
    /\ UNCHANGED <<RELAY_TOKEN, clock, spool, request, cur, uids>>

\* generate_tts: sox (lines 53-56)
tts_sox ==
    /\ pc = "sox"
    /\ \/ /\ sounds' = Put(sounds, final_path(cur.sound), NewSound("complete"))
          /\ Continue("sox", final_path(cur.sound), "remove_raw")
       \/ /\ sounds' \in AfterFailedWrite(sounds, final_path(cur.sound))
          /\ Raise("sox", final_path(cur.sound), "CalledProcessError")
    /\ UNCHANGED <<RELAY_TOKEN, clock, spool, request, cur, uids>>

\* Mutant: the raw file is left where it is.
tts_keep_raw ==
    /\ pc = "remove_raw"
    /\ UNCHANGED sounds
    /\ Continue("remove_raw", raw_path(cur.sound), "chown_final")
    /\ UNCHANGED <<RELAY_TOKEN, clock, spool, request, cur, uids>>

\* generate_tts: os.remove(raw_path) (line 57), outside any try
tts_remove_raw ==
    /\ pc = "remove_raw"
    /\ \/ /\ sounds' = Unlink(sounds, raw_path(cur.sound))
          /\ Continue("remove_raw", raw_path(cur.sound), "chown_final")
       \/ /\ UNCHANGED sounds
          /\ Raise("remove_raw", raw_path(cur.sound), "OSError")
    /\ UNCHANGED <<RELAY_TOKEN, clock, spool, request, cur, uids>>

\* Mutant: the chown of the final asset without its try.
tts_chown_unguarded ==
    /\ pc = "chown_final"
    /\ \/ /\ sounds' = chown(sounds, final_path(cur.sound))
          /\ Continue("chown_final", final_path(cur.sound), "open_tmp")
       \/ /\ UNCHANGED sounds
          /\ Raise("chown_final", final_path(cur.sound), "PermissionError")
    /\ UNCHANGED <<RELAY_TOKEN, clock, spool, request, cur, uids>>

\* generate_tts: chown of the final asset (lines 60-63), best effort
tts_chown ==
    /\ pc = "chown_final"
    /\ \/ /\ sounds' = chown(sounds, final_path(cur.sound))
          /\ Continue("chown_final", final_path(cur.sound), "open_tmp")
       \/ /\ UNCHANGED sounds
          /\ Suppress("chown_final", final_path(cur.sound), "open_tmp")
    /\ UNCHANGED <<RELAY_TOKEN, clock, spool, request, cur, uids>>

\* originate_call: open(tmp_file, "w") (line 88) creates or truncates it
call_open_tmp ==
    /\ pc = "open_tmp"
    /\ \/ /\ spool' = Put(spool, tmp_file(cur.uid), NewCallFile(<<>>))
          /\ Continue("open_tmp", tmp_file(cur.uid), "write_tmp")
       \/ /\ UNCHANGED spool
          /\ Raise("open_tmp", tmp_file(cur.uid), "OSError")
    /\ UNCHANGED <<RELAY_TOKEN, clock, sounds, request, cur, uids>>

\* originate_call: f.write(content) and the close of the file (line 89).
\* A failed write leaves a proper prefix of the text in the file.
call_write_tmp ==
    /\ pc = "write_tmp"
    /\ LET text == content(cur.to, cur.sound)
           tmp  == tmp_file(cur.uid)
       IN  \/ /\ spool' = Put(spool, tmp, [spool[tmp] EXCEPT !.text = text])
              /\ Continue("write_tmp", tmp, "chown_tmp")
           \/ /\ \E k \in {0, Len(text) - 1} :
                    spool' = Put(spool, tmp, [spool[tmp] EXCEPT !.text = SubSeq(text, 1, k)])
              /\ Raise("write_tmp", tmp, "OSError")
    /\ UNCHANGED <<RELAY_TOKEN, clock, sounds, request, cur, uids>>

\* originate_call: chown of the temporary file (lines 91-94), best effort
call_chown_tmp ==
    /\ pc = "chown_tmp"
    /\ \/ /\ spool' = chown(spool, tmp_file(cur.uid))
          /\ Continue("chown_tmp", tmp_file(cur.uid), "rename")
       \/ /\ UNCHANGED spool
          /\ Suppress("chown_tmp", tmp_file(cur.uid), "rename")
    /\ UNCHANGED <<RELAY_TOKEN, clock, sounds, request, cur, uids>>

\* os.rename(src, dst): dst is atomically replaced by the file src names.
rename(dir, src, dst) == Put(Unlink(dir, src), dst, dir[src])

\* originate_call: os.rename(tmp_file, call_file) (line 96)
call_rename ==
    /\ pc = "rename"
    /\ \/ /\ spool' = rename(spool, tmp_file(cur.uid), call_file(cur.uid))
          /\ Continue("rename", call_file(cur.uid), "cleanup")
       \/ /\ UNCHANGED spool
          /\ Raise("rename", call_file(cur.uid), "OSError")
    /\ UNCHANGED <<RELAY_TOKEN, clock, sounds, request, cur, uids>>

\* Mutant: every file with the prefix is removed, whatever its age.
expired_any_age(dir, now) ==
    {f \in DOMAIN dir : startswith(f, ASSET_PREFIX) /\ dir[f].isfile}

\* Mutant: a file is removed from the threshold age on.
expired_at_threshold(dir, now) ==
    {f \in DOMAIN dir :
        startswith(f, ASSET_PREFIX) /\ dir[f].isfile /\ (now - dir[f].mtime) >= MaxAge}

\* The files _cleanup_old_sounds removes when nothing raises (lines 108-112).
expired(dir, now) ==
    {f \in DOMAIN dir :
        startswith(f, ASSET_PREFIX) /\ dir[f].isfile /\ (now - dir[f].mtime) > MaxAge}

\* Mutant: the sweep without its try: an exception leaves originate_call.
cleanup_old_sounds_unguarded ==
    /\ pc = "cleanup"
    /\ LET old == expired(sounds, clock)
       IN  \/ /\ sounds' = [f \in DOMAIN sounds \ old |-> sounds[f]]
              /\ Continue("cleanup", <<>>, "respond")
           \/ /\ UNCHANGED sounds
              /\ Raise("cleanup", <<>>, "OSError")
           \/ \E g \in old :
                 /\ \E gone \in SUBSET (old \ {g}) :
                       sounds' = [f \in DOMAIN sounds \ gone |-> sounds[f]]
                 /\ Raise("cleanup", g, "OSError")
    /\ UNCHANGED <<RELAY_TOKEN, clock, spool, request, cur, uids>>

\* _cleanup_old_sounds (lines 104-114).  The try encloses the whole loop:
\* the first exception ends the sweep, with the files removed so far gone.
\* os.listdir gives no order, so any part of the other expired files may
\* be the part removed before os.remove raises on the file g.  The event
\* of a failed sweep names g, or no file when os.listdir raised.
cleanup_old_sounds ==
    /\ pc = "cleanup"
    /\ LET old == expired(sounds, clock)
       IN  \/ /\ sounds' = [f \in DOMAIN sounds \ old |-> sounds[f]]
              /\ Continue("cleanup", <<>>, "respond")
           \/ /\ UNCHANGED sounds
              /\ Suppress("cleanup", <<>>, "respond")
           \/ \E g \in old :
                 /\ \E gone \in SUBSET (old \ {g}) :
                       sounds' = [f \in DOMAIN sounds \ gone |-> sounds[f]]
                 /\ Suppress("cleanup", g, "respond")
    /\ UNCHANGED <<RELAY_TOKEN, clock, spool, request, cur, uids>>

\* do_POST: self._json(200, result) (line 153)
send_result ==
    /\ pc = "respond"
    /\ resp' = json_response(200, ok_result(cur.to, cur.sound, cur.uid))
    /\ pc' = "done"
    /\ UNCHANGED <<RELAY_TOKEN, clock, sounds, spool, request, cur, trace, uids, faults>>

\* The request is over (the response is out, or the exception has reached
\* socketserver): the locals of the handler are gone and the server waits
\* for the next request.
finish_request ==
    /\ pc = "done"
    /\ pc' = "idle"
    /\ request' = NoRequest
    /\ cur' = NoCall
    /\ trace' = <<>>
    /\ resp' = NoResponse
    /\ UNCHANGED <<RELAY_TOKEN, clock, sounds, spool, uids, faults>>

Next ==
    \/ \E req \in Requests : Reject(req)
    \/ \E req \in Requests : originate_call(req)
    \/ tts_flite
    \/ tts_sox
    \/ tts_remove_raw
    \/ tts_chown
    \/ call_open_tmp
    \/ call_write_tmp
    \/ call_chown_tmp
    \/ call_rename
    \/ cleanup_old_sounds
    \/ send_result
    \/ finish_request
    \/ AsteriskPickup
    \/ Tick

Spec == Init /\ [][Next]_vars

(***************************************************************************)
(* The relay over many requests and restarts, for what happens             *)
(* eventually.  The service is started in an audio directory where an      *)
(* earlier run has left, more than MAX_SOUND_AGE_SECS ago, the asset of a  *)
(* call and its raw file; valid calls arrive; the service may be           *)
(* restarted between requests (a new process: the record of its calls and  *)
(* of its failed steps starts empty, the directories stay).                *)
(***************************************************************************)
OldAsset == final_path(sound_name_of(str_int(0)))
OldRaw   == raw_path(sound_name_of(str_int(0)))

LiveInit ==
    /\ RELAY_TOKEN = "s3cret"
    /\ clock = MaxAge + 2
    /\ sounds = Put(Put(Preexisting,
                        OldAsset, [st |-> "complete", mtime |-> 1, isfile |-> TRUE]),
                        OldRaw,   [st |-> "complete", mtime |-> 0, isfile |-> TRUE])
    /\ spool = EmptyDir
    /\ pc = "idle"
    /\ request = NoRequest
    /\ cur = NoCall
    /\ trace = <<>>
    /\ resp = NoResponse
    /\ uids = <<>>
    /\ faults = 0

\* main (lines 169-175) runs again in a new process.
restart ==
    /\ pc = "idle"
    /\ uids # <<>>
    /\ uids' = <<>>
    /\ faults' = 0
    /\ UNCHANGED <<RELAY_TOKEN, clock, sounds, spool, pc, request, cur, trace, resp>>

\* One step of the handler of a call.
HandlerStep ==
    \/ tts_flite
    \/ tts_sox
    \/ tts_remove_raw
    \/ tts_chown
    \/ call_open_tmp
    \/ call_write_tmp
    \/ call_chown_tmp
    \/ call_rename
    \/ cleanup_old_sounds
    \/ send_result
    \/ finish_request

LiveNext ==
    \/ originate_call(Request("POST", "/call", "s3cret", "exact", PlainCall))
    \/ HandlerStep
    \/ AsteriskPickup
    \/ restart

\* The handler runs to the end of every request it has begun: its steps
\* block, but none waits for another request.  Nothing makes requests
\* arrive.
LiveSpec == LiveInit /\ [][LiveNext]_vars /\ WF_vars(HandlerStep)

(***************************************************************************)
(* Vocabulary of the properties.                                           *)
(***************************************************************************)
Events        == {trace[i] : i \in 1..Len(trace)}
Took(op)      == \E e \in Events : e.op = op
Failed(op)    == \E e \in Events : e.op = op /\ ~e.ok
Succeeded(op) == \E e \in Events : e.op = op /\ e.ok

\* The files the successful steps op of the current request have made.
Made(op) == {e.name : e \in {x \in Events : x.op = op /\ x.ok}}

\* The request that is over was a call answered 200 (GET /health is
\* answered 200 too, without a call).
Answered200 == pc = "done" /\ cur # NoCall /\ resp.code = 200

\* A step takes up the next request (which is request').
Handling == pc = "idle" /\ pc' # "idle"

\* A step leaves both directories and the record of pipeline steps alone.
NoSideEffects == sounds' = sounds /\ spool' = spool /\ trace' = trace /\ uids' = uids

\* The file n of the pickup directory is new or has changed in a step.
Appears(n) == n \in DOMAIN spool' /\ (n \notin DOMAIN spool \/ spool'[n] # spool[n])

\* The lines of a text, as str.splitlines gives them.
RECURSIVE split(_, _)
split(text, line) ==
    IF text = <<>> THEN (IF line = <<>> THEN <<>> ELSE <<line>>)
    ELSE IF Head(text) = "\n" THEN <<line>> \o split(Tail(text), <<>>)
    ELSE split(Tail(text), Append(line, Head(text)))

Lines(text) == split(text, <<>>)

\* The sounds the Data lines of a call file name.
DataOf(text) ==
    LET L == Lines(text)
    IN  {Tail(L[i]) : i \in {j \in 1..Len(L) : L[j] # <<>> /\ Head(L[j]) = "Data: custom/"}}

\* The destinations a request can get past the checks with.
AcceptedTo == {to_of(r) : r \in Requests} \ {<<>>}

\* text is the whole text of the call file of one of the calls made.
WholeText(n, text) ==
    \E i \in 1..Len(uids), t \in AcceptedTo :
        n = call_file(uids[i]) /\ text = content(t, sound_name_of(uids[i]))

(***************************************************************************)
(* C1.  Whatever POST /call requests are handled and wherever the engine   *)
(* scans the pickup directory in between, a file with a final name         *)
(* (akira-<uid>.call) holds the whole text of a call file, and a final     *)
(* name comes to exist, or to hold something else, only by the rename of   *)
(* originate_call, which puts the whole text of the current call there.    *)
(***************************************************************************)
C1_NoPartialFinal ==
    \A n \in DOMAIN spool : IsFinalName(n) => WholeText(n, spool[n].text)

C1_OnlyRenamePublishes ==
    \A n \in DOMAIN spool' :
        IsFinalName(n) /\ Appears(n) =>
            /\ pc = "rename" /\ pc' = "cleanup"
            /\ n = call_file(cur.uid)
            /\ spool'[n].text = content(cur.to, cur.sound)

C1_AtomicPublish == [](C1_NoPartialFinal) /\ [][C1_OnlyRenamePublishes]_vars

\* A call file is being written (it is still empty) under its temporary
\* name while a published one waits for the engine.
C1_Witness ==
    /\ pc = "write_tmp"
    /\ tmp_file(cur.uid) \in DOMAIN spool
    /\ spool[tmp_file(cur.uid)].text = <<>>
    /\ \E n \in DOMAIN spool : IsFinalName(n)

(***************************************************************************)
(* C2.  A POST /call whose X-Relay-Token is absent or differs from the    *)
(* configured, non-empty token is answered 403 in one step that calls     *)
(* neither generate_tts nor originate_call and leaves the audio and the   *)
(* pickup directory as they are, whatever its Content-Length and body.    *)
(***************************************************************************)
BadToken(req) ==
    /\ req.method = "POST" /\ req.path = "/call"
    /\ RELAY_TOKEN # "" /\ req.token # RELAY_TOKEN

C2_Rejected ==
    BadToken(request) => pc = "done" /\ resp.code = 403 /\ cur = NoCall /\ trace = <<>>

C2_NoEffect ==
    Handling /\ BadToken(request') => resp'.code = 403 /\ pc' = "done" /\ NoSideEffects

C2_AuthFailure == [](C2_Rejected) /\ [][C2_NoEffect]_vars

\* A request that lacks nothing but the right token has been answered 403,
\* with files in both directories.
C2_Witness ==
    /\ pc = "done" /\ resp.code = 403
    /\ BadToken(request) /\ request.body = PlainCall /\ request.clen = "exact"
    /\ DOMAIN sounds # DOMAIN Preexisting /\ DOMAIN spool # {}

(***************************************************************************)
(* C3.  An authenticated POST /call whose body, read by the handler, is a  *)
(* JSON object without 'to', or with a 'to' that is empty or only          *)
(* whitespace, is answered 400 in one step that leaves the audio and the   *)
(* pickup directory as they are: no synthesis, no temporary file, no       *)
(* artifact, no sweep.  (A body is what Content-Length delimits; a request *)
(* whose header is missing or is no number has no JSON object body, and    *)
(* is the subject of C9.)                                                  *)
(***************************************************************************)
Blank(s) == \A i \in 1..Len(s) : s[i] \in Whitespace

NoDestination(req) ==
    /\ req.method = "POST" /\ req.path = "/call"
    /\ RELAY_TOKEN # "" /\ req.token = RELAY_TOKEN
    /\ req.clen = "exact" /\ req.body.kind = "object"
    /\ req.body.to = Missing \/ (req.body.to.t = "str" /\ Blank(req.body.to.s))

C3_Rejected ==
    NoDestination(request) => pc = "done" /\ resp.code = 400 /\ cur = NoCall /\ trace = <<>>

C3_NoEffect ==
    Handling /\ NoDestination(request') => resp'.code = 400 /\ pc' = "done" /\ NoSideEffects

C3_MissingTo == [](C3_Rejected) /\ [][C3_NoEffect]_vars

\* A request with a blank destination has been answered 400, with files in
\* both directories.
C3_Witness ==
    /\ pc = "done" /\ resp = send_error(400, "Missing 'to'")
    /\ NoDestination(request) /\ request.body.to = JStr(<<" ">>)
    /\ DOMAIN sounds # DOMAIN Preexisting /\ DOMAIN spool # {}

(***************************************************************************)
(* C4.  Any two calls of originate_call in one process get distinct uids,  *)
(* also when both are made within one millisecond.                         *)
(***************************************************************************)
C4_DistinctUids ==
    \A i, j \in 1..Len(uids) : i # j => uids[i] # uids[j]

(***************************************************************************)
(* C5.  A POST /call answered 200 has made exactly one audio asset,        *)
(* akira-alert-<uid>.wav, and published exactly one artifact,              *)
(* akira-<uid>.call, with the same uid; 'sound' of the response is the     *)
(* name of the asset; the raw file of the request is gone; and the Data    *)
(* line of the artifact, when it is published, names that asset.           *)
(***************************************************************************)
C5_OneAssetOneArtifact ==
    Answered200 =>
        LET uid == Tail(resp.body.sound)
        IN  /\ Head(resp.body.sound) = "akira-alert-"
            /\ Made("sox") = {<<"akira-alert-">> \o uid \o <<".wav">>}
            /\ Made("rename") = {<<"akira-">> \o uid \o <<".call">>}
            /\ Cardinality({i \in 1..Len(trace) : trace[i].op \in {"sox", "rename"}}) = 2
            /\ (<<"akira-alert-">> \o uid \o <<"-raw.wav">>) \notin DOMAIN sounds

C5_DataNamesAsset ==
    \A n \in DOMAIN spool' :
        IsFinalName(n) /\ Appears(n) =>
            \E uid \in {cur.uid} :
                /\ n = <<"akira-">> \o uid \o <<".call">>
                /\ DataOf(spool'[n].text) = {<<"akira-alert-">> \o uid}
                /\ Made("sox") = {<<"akira-alert-">> \o uid \o <<".wav">>}

C5_Correlated == [](C5_OneAssetOneArtifact) /\ [][C5_DataNamesAsset]_vars

\* A call has been answered 200, and its asset and its artifact are there.
C5_Witness ==
    /\ Answered200
    /\ final_path(cur.sound) \in DOMAIN sounds
    /\ call_file(cur.uid) \in DOMAIN spool

(***************************************************************************)
(* C6.  Within one /call request the asset is fully written before the     *)
(* artifact is published, and the artifact is published before the         *)
(* response is sent.  Hence when an artifact comes to exist under its      *)
(* final name, the asset its Data line names exists in its final form,     *)
(* and no response has been sent yet.                                      *)
(***************************************************************************)
C6_StepOrder ==
    /\ \A i \in 1..Len(trace) :
          trace[i].op = "rename" =>
              \E j \in 1..(i - 1) : trace[j].op = "sox" /\ trace[j].ok
    /\ Answered200 => Succeeded("rename")
    /\ Succeeded("rename") /\ pc # "done" => resp = NoResponse

C6_AssetBeforeArtifact ==
    \A n \in DOMAIN spool' :
        IsFinalName(n) /\ Appears(n) =>
            /\ DataOf(spool'[n].text) # {}
            /\ \A s \in DataOf(spool'[n].text) :
                  /\ final_path(s) \in DOMAIN sounds
                  /\ sounds[final_path(s)].st = "complete"
            /\ resp' = NoResponse

C6_Order == [](C6_StepOrder) /\ [][C6_AssetBeforeArtifact]_vars

\* The artifact has just been published; the response is still to come.
C6_Witness ==
    /\ pc = "cleanup"
    /\ call_file(cur.uid) \in DOMAIN spool
    /\ resp = NoResponse

(***************************************************************************)
(* C7.  When flite or sox fails, the request is answered 500 with the      *)
(* JSON body {"status": "error", "reason": ...}; the request has written   *)
(* no temporary file, renamed nothing and run no sweep; and while the      *)
(* synthesis runs no file appears in the pickup directory.                 *)
(***************************************************************************)
C7_NoPublication ==
    pc = "done" /\ (Failed("flite") \/ Failed("sox")) =>
        /\ resp.code = 500
        /\ resp.ctype = "application/json"
        /\ DOMAIN resp.body = {"status", "reason"}
        /\ resp.body.status = <<"error">>
        /\ \A e \in Events : e.op \in {"flite", "sox"}

C7_NothingAppears ==
    pc \in {"flite", "sox"} => \A n \in DOMAIN spool' : ~Appears(n)

C7_SynthesisFailure == [](C7_NoPublication) /\ [][C7_NothingAppears]_vars

\* sox has failed: the request is answered 500 and its raw file remains.
C7_Witness ==
    /\ pc = "done" /\ Failed("sox") /\ resp.code = 500
    /\ raw_path(cur.sound) \in DOMAIN sounds

(***************************************************************************)
(* C8.  When writing the temporary file or renaming it fails, the request  *)
(* is answered 500 and no file exists under the final artifact name of     *)
(* that request.                                                           *)
(***************************************************************************)
C8_NoFinalAfterPublishFailure ==
    pc = "done" /\ (Failed("open_tmp") \/ Failed("write_tmp") \/ Failed("rename")) =>
        /\ resp.code = 500
        /\ call_file(cur.uid) \notin DOMAIN spool

(***************************************************************************)
(* C9.  Every failure while a request is handled is caught in the handler  *)
(* and answered with a structured JSON error response: no request ends     *)
(* with an exception leaving the handler, and an error of the body, of     *)
(* the synthesis or of the publication is answered in JSON.                *)
(***************************************************************************)
C9_AllFailuresStructured ==
    pc = "done" =>
        /\ resp.ctype # "none"
        /\ resp.code \in {400, 500} => resp.ctype = "application/json"

(***************************************************************************)
(* C10.  When the removal of the raw file fails after the asset has been   *)
(* made, the request does not fail: the artifact is published and the      *)
(* response is 200.                                                        *)
(***************************************************************************)
C10_RawRemovalBestEffort ==
    pc = "done" /\ Failed("remove_raw") =>
        /\ resp.code = 200
        /\ Succeeded("rename")

(***************************************************************************)
(* C11.  A sweep deletes only files of the audio directory whose name      *)
(* starts with 'akira-alert-' and whose age (now - mtime) is strictly      *)
(* greater than the threshold: a file at or below the threshold age and a  *)
(* file without the prefix stay, no file is changed or added, and when no  *)
(* file qualifies the directory is left as it is.                          *)
(***************************************************************************)
Qualifies(f) ==
    /\ f[1] = "akira-alert-"
    /\ sounds[f].isfile
    /\ clock - sounds[f].mtime > MAX_SOUND_AGE_SECS * 1000 * TicksPerMs

C11_SweepDeletesOnlyOld ==
    pc = "cleanup" =>
        /\ DOMAIN sounds' \subseteq DOMAIN sounds
        /\ \A f \in DOMAIN sounds :
              IF f \in DOMAIN sounds' THEN sounds'[f] = sounds[f] ELSE Qualifies(f)
        /\ (\A f \in DOMAIN sounds : ~Qualifies(f)) => sounds' = sounds

C11_Sweep == [][C11_SweepDeletesOnlyOld]_vars

\* A sweep has run while the asset of the first call was exactly as old as
\* the threshold: the asset is still there, and so is what the directory
\* held at the start, while the older raw file of that call is gone.
C11_Witness ==
    /\ pc = "respond" /\ Succeeded("cleanup")
    /\ Len(uids) = 2
    /\ LET first == sound_name_of(uids[1])
       IN  /\ final_path(first) \in DOMAIN sounds
           /\ clock - sounds[final_path(first)].mtime = MaxAge
           /\ raw_path(first) \notin DOMAIN sounds
    /\ DOMAIN Preexisting \subseteq DOMAIN sounds

(***************************************************************************)
(* C12.  A file of the audio directory with the asset prefix that is       *)
(* older than the threshold is eventually deleted, provided sweeps keep    *)
(* being run, also when the deletion of some other file fails during a     *)
(* sweep: here, provided that the scan never fails and that the deletion   *)
(* of the file itself never fails.                                         *)
(***************************************************************************)
SweepDone == pc = "respond"

\* The sweep just run ended with an exception raised on the file f
\* (on no file: by the scan of the directory).
SweepFailedAt(f) ==
    /\ pc = "respond"
    /\ trace[Len(trace)] = Event("cleanup", FALSE, f)

C12_EventuallySwept ==
    \A f \in {OldAsset, OldRaw} :
        ([]<>SweepDone /\ []~SweepFailedAt(<<>>) /\ []~SweepFailedAt(f))
            => <>(f \notin DOMAIN sounds)

(***************************************************************************)
(* C13.  The sweep runs exactly once in a /call request whose artifact was *)
(* published, right after the rename, and not at all in a request that     *)
(* failed before the publication; an error of the scan or of a deletion    *)
(* is suppressed: a request whose artifact was published is answered 200   *)
(* whatever the sweep did.                                                 *)
(***************************************************************************)
Sweeps == {i \in 1..Len(trace) : trace[i].op = "cleanup"}

C13_SweepOncePerPublication ==
    /\ Cardinality(Sweeps) <= 1
    /\ \A i \in Sweeps : i > 1 /\ trace[i - 1].op = "rename" /\ trace[i - 1].ok
    /\ pc \in {"respond", "done"} /\ Succeeded("rename") => Cardinality(Sweeps) = 1
    /\ pc = "done" /\ Succeeded("rename") => resp.code = 200
    /\ pc = "done" /\ ~Succeeded("rename") => Sweeps = {}

\* The artifact was published, the deletion of an old file failed in the
\* sweep, and the request has been answered 200.
C13_Witness ==
    /\ pc = "done" /\ resp.code = 200
    /\ Succeeded("rename")
    /\ \E e \in Events : e.op = "cleanup" /\ ~e.ok /\ e.name # <<>>

(***************************************************************************)
(* C14.  A request that is neither GET /health nor POST /call is answered  *)
(* 404 without side effects: GET on another path, POST on another path,    *)
(* and any other method on any path.                                       *)
(***************************************************************************)
C14_OthersGet404 ==
    /\ pc = "done"
    /\ request # NoRequest
    /\ ~(request.method = "GET" /\ request.path = "/health")
    /\ ~(request.method = "POST" /\ request.path = "/call")
    => resp.code = 404 /\ cur = NoCall /\ trace = <<>>

(***************************************************************************)
(* C15.  When the configured token is empty, a POST /call is answered 500  *)
(* with the JSON body {"status": "error", "reason": ...}, whatever its     *)
(* X-Relay-Token and body, without synthesis or publication.               *)
(***************************************************************************)
C15_TokenUnset ==
    /\ pc = "done"
    /\ RELAY_TOKEN = ""
    /\ request.method = "POST" /\ request.path = "/call"
    => /\ resp.code = 500
       /\ resp.ctype = "application/json"
       /\ DOMAIN resp.body = {"status", "reason"}
       /\ cur = NoCall /\ trace = <<>>

(***************************************************************************)
(* C16.  A successful POST /call is answered 200 with a JSON body that is  *)
(* exactly {"status": "ok", "to": <destination>, "sound": <asset name>}:   *)
(* 'to' is the stripped destination of the request, 'sound' the name       *)
(* generate_tts returned, and there is no other field.                     *)
(***************************************************************************)
C16_ExactBody ==
    Answered200 =>
        /\ resp.ctype = "application/json"
        /\ resp.body.status = <<"ok">>
        /\ resp.body.to = strip(py_str(request.body.to))
        /\ resp.body.sound = cur.sound
        /\ DOMAIN resp.body = {"status", "to", "sound"}

(***************************************************************************)
(* C17.  A failure of chown, on the final asset or on the temporary file   *)
(* of the artifact, never fails the request: the handler goes on with the  *)
(* step that follows, and unless a step other than a chown or the sweep    *)
(* fails, the artifact is renamed to its final name and the response is    *)
(* 200.                                                                    *)
(***************************************************************************)
ChownFailed(e) == e.op \in {"chown_final", "chown_tmp"} /\ ~e.ok

C17_ChownBestEffort ==
    /\ trace # <<>> /\ ChownFailed(trace[Len(trace)]) =>
          /\ pc = (IF trace[Len(trace)].op = "chown_final" THEN "open_tmp" ELSE "rename")
          /\ resp = NoResponse
    /\ /\ pc = "done"
       /\ \E e \in Events : ChownFailed(e)
       /\ \A e \in Events : ~e.ok => ChownFailed(e) \/ e.op = "cleanup"
       => resp.code = 200 /\ Succeeded("rename")

\* The chown of the final asset failed, and the request has been answered
\* 200 with its artifact published.
C17_Witness ==
    /\ pc = "done" /\ resp.code = 200
    /\ Failed("chown_final")
    /\ Succeeded("rename")

(***************************************************************************)
(* C18.  For every accepted destination, also one with line breaks         *)
(* inside, a published artifact consists of exactly the seven lines        *)
(* Channel, Application, Data, MaxRetries, RetryTime, WaitTime, CallerID   *)
(* in this order, with Application: Playback and Data: custom/<asset>:     *)
(* the request adds no line and overrides none.                            *)
(***************************************************************************)
C18_SevenLines ==
    \A n \in DOMAIN spool :
        IsFinalName(n) =>
            LET L == Lines(spool[n].text)
            IN  /\ Len(L) = 7
                /\ Head(L[1]) = "Channel: PJSIP/"
                /\ L[2] = <<"Application: Playback">>
                /\ Head(L[3]) = "Data: custom/" /\ Head(Tail(L[3])) = "akira-alert-"
                /\ L[4] = <<"MaxRetries: 2">>
                /\ L[5] = <<"RetryTime: 30">>
                /\ L[6] = <<"WaitTime: 45">>
                /\ L[7] = <<"CallerID: ", CALLER_ID>>

(***************************************************************************)
(* C19.  The checks of a POST are made in a fixed order and the first      *)
(* that fails decides the response: the path (404), the token being        *)
(* configured (500), the token matching (403), the body parsing (400),     *)
(* the destination being there (400); a request that passes them all       *)
(* reaches originate_call.  A wrong token is answered 403 whatever the     *)
(* Content-Length and the body are.  (The two checks of the body are those *)
(* of a body the handler reads, and the last that of a JSON object: what   *)
(* happens otherwise is the subject of C9.)                                *)
(***************************************************************************)
EndsWith(code) == pc = "done" /\ resp.code = code /\ cur = NoCall /\ trace = <<>>

Unparsable(req) == req.clen = "absent" \/ req.body.kind = "garbage"

C19_CheckOrder ==
    request.method = "POST" =>
        IF request.path # "/call" THEN EndsWith(404)
        ELSE IF RELAY_TOKEN = "" THEN EndsWith(500)
        ELSE IF request.token # RELAY_TOKEN THEN EndsWith(403)
        ELSE IF request.clen = "invalid" THEN TRUE
        ELSE IF Unparsable(request) THEN EndsWith(400)
        ELSE IF request.body.kind # "object" THEN TRUE
        ELSE IF request.body.to = Missing THEN EndsWith(400)
        ELSE IF request.body.to.t = "str" /\ Blank(request.body.to.s) THEN EndsWith(400)
        ELSE cur # NoCall /\ cur.to # <<>>

\* A request with a wrong token and a body that is not JSON has been
\* answered 403.
C19_Witness ==
    /\ pc = "done" /\ resp.code = 403
    /\ request.path = "/call" /\ request.token = "wrong"
    /\ request.body.kind = "garbage"

(***************************************************************************)
(* C20.  In every reachable state the audio asset that an artifact under   *)
(* a final name in the pickup directory (published, not yet taken by the   *)
(* engine) refers to exists in the audio directory: no sweep deletes the   *)
(* asset of an artifact that is still pending.                             *)
(***************************************************************************)
Pending == {n \in DOMAIN spool : IsFinalName(n)}

AssetsOf(n) == {final_path(s) : s \in DataOf(spool[n].text)}

C20_PendingAssetExists ==
    \A n \in Pending : AssetsOf(n) # {} /\ AssetsOf(n) \subseteq DOMAIN sounds

(***************************************************************************)
(* C20, as the code has it.  When an artifact is published the asset it    *)
(* refers to exists, and a sweep leaves the asset of a pending artifact    *)
(* where it is unless the asset is older than the threshold: the sweep     *)
(* goes by the age of a file alone and does not look at the pickup         *)
(* directory.                                                              *)
(***************************************************************************)
C20_PublishedWithAsset ==
    pc = "rename" /\ pc' = "cleanup" =>
        LET n == call_file(cur.uid)
        IN  /\ n \in DOMAIN spool'
            /\ DataOf(spool'[n].text) # {}
            /\ \A s \in DataOf(spool'[n].text) : final_path(s) \in DOMAIN sounds'

C20_SweepSparesYoung ==
    pc = "cleanup" =>
        \A a \in DOMAIN sounds :
            /\ clock - sounds[a].mtime <= MaxAge
            /\ a \notin DOMAIN sounds' \/ sounds'[a] # sounds[a]
            => \A n \in Pending : a \notin AssetsOf(n)

C20_SweepByAgeAlone == [][C20_PublishedWithAsset /\ C20_SweepSparesYoung]_vars

\* The sweep of a later call has run while the artifact of an earlier call
\* was pending and its asset exactly as old as the threshold: the asset is
\* still there.
C20_Witness ==
    /\ pc = "respond" /\ Succeeded("cleanup")
    /\ \E n \in Pending :
          /\ n # call_file(cur.uid)
          /\ \E a \in AssetsOf(n) : a \in DOMAIN sounds /\ clock - sounds[a].mtime = MaxAge

====
